---- MODULE Spec2Model ----
(***************************************************************************)
(* A model of rdflib_jsonld/context.py: the JSON-LD Context structure.     *)
(*                                                                         *)
(* Strings are sequences of one-character strings; a JSON-LD keyword       *)
(* ("@id", "@type", ...) is a one-element sequence holding the keyword, as *)
(* the code only ever compares keywords whole.  Python's None and the      *)
(* module's UNDEF are two reserved one-element sequences that no string of *)
(* the inputs contains.                                                    *)
(***************************************************************************)
EXTENDS Integers, Sequences, FiniteSets, TLC

VARIABLES
    ctxs,      \* the Context objects created so far (object id = index)
    alists,    \* the list objects held as values of the _alias dicts
    last,      \* the call made by the last step, with its result
    nops,      \* number of calls made so far
    rx         \* the frame of a running _rec_expand call

vars == <<ctxs, alists, last, nops, rx>>

(***************************************************************************)
(* Bounds of the model.                                                    *)
(***************************************************************************)
MaxCtx == 3
MaxOps == 3
RecursionLimit == 6

(***************************************************************************)
(* Values.                                                                 *)
(***************************************************************************)
PyNone == <<"None">>
UNDEF == <<"UNDEF">>

BASE == <<"@base">>
CONTAINER == <<"@container">>
CONTEXT == <<"@context">>
GRAPH == <<"@graph">>
ID == <<"@id">>
INCLUDED == <<"@included">>
INDEX == <<"@index">>
JSON == <<"@json">>
LANG == <<"@language">>
LIST == <<"@list">>
NEST == <<"@nest">>
NONE == <<"@none">>
PREFIX == <<"@prefix">>
PROPAGATE == <<"@propagate">>
REV == <<"@reverse">>
SET == <<"@set">>
TYPE == <<"@type">>
VALUE == <<"@value">>
VERSION == <<"@version">>
VOCAB == <<"@vocab">>

NODE_KEYS == {GRAPH, ID, INCLUDED, JSON, LIST, NEST, NONE, REV, SET, TYPE, VALUE, LANG}

URI_GEN_DELIMS == {":", "/", "?", "#", "[", "]", "@"}

RDF_type == <<"r", ":", "/", "/", "w", "#", "t">>

V10 == 10
V11 == 11

IsStr(v) == v # PyNone /\ v # UNDEF

\* Python truth of a string-or-None-or-UNDEF value
Truthy(v) == IsStr(v) /\ v # <<>>

\* x or y
PyOr(x, y) == IF Truthy(x) THEN x ELSE y

HasColon(s) == \E i \in 1..Len(s) : s[i] = ":"

FirstColon(s) == CHOOSE i \in 1..Len(s) : s[i] = ":" /\ \A j \in 1..(i-1) : s[j] # ":"

EndsWithDelim(s) == Len(s) > 0 /\ s[Len(s)] \in URI_GEN_DELIMS

StartsWith(s, p) == Len(p) <= Len(s) /\ SubSeq(s, 1, Len(p)) = p

Range(s) == {s[i] : i \in 1..Len(s)}

\* code points of the characters the inputs use, for sorted()
CodePoint(c) ==
    CASE c = "#" -> 35 [] c = "/" -> 47 [] c = ":" -> 58 [] c = "@" -> 64
      [] c = "A" -> 65 [] c = "M" -> 77 [] c = "N" -> 78 [] c = "Z" -> 90
      [] c = "a" -> 97 [] c = "b" -> 98 [] c = "e" -> 101 [] c = "h" -> 104
      [] c = "i" -> 105 [] c = "n" -> 110 [] c = "p" -> 112 [] c = "q" -> 113
      [] c = "s" -> 115 [] c = "t" -> 116 [] c = "x" -> 120 [] c = "y" -> 121
      [] OTHER -> 200

RECURSIVE StrLess(_, _)
StrLess(s, t) ==
    IF t = <<>> THEN FALSE
    ELSE IF s = <<>> THEN TRUE
    ELSE IF s[1] = t[1] THEN StrLess(Tail(s), Tail(t))
    ELSE CodePoint(s[1]) < CodePoint(t[1])

\* sorted(rtype), for a list of distinct strings
RECURSIVE Sorted(_)
Sorted(S) ==
    IF S = {} THEN <<>>
    ELSE LET m == CHOOSE x \in S : \A y \in S \ {x} : StrLess(x, y)
         IN <<m>> \o Sorted(S \ {m})

(***************************************************************************)
(* Raw JSON values.  A context body is a dict: the sequence of its         *)
(* entries, in the dict's order.                                           *)
(***************************************************************************)
NoSource == [kind |-> "null"]
Ref(url) == [kind |-> "ref", url |-> url]
Inline(id) == [kind |-> "body", id |-> id]
Wrapped(src) == [kind |-> "wrap", inner |-> src]
ListOf(items) == [kind |-> "list", items |-> items]

\* a dict term definition; UNDEF in id, type, index and language, PyNone in rev
\* and "none" in prefix say that the key is absent from the dict
Scalar(v) == [list |-> FALSE, val |-> v, items |-> <<>>]
NoDfn ==
    [id |-> UNDEF, rev |-> PyNone, type |-> UNDEF, container |-> Scalar(UNDEF),
     index |-> UNDEF, language |-> UNDEF, context |-> NoSource, prefix |-> "none"]

StrE(k, s) == [key |-> k, kind |-> "str", str |-> s, num |-> 0, bool |-> FALSE, dfn |-> NoDfn]
NullE(k) == [key |-> k, kind |-> "null", str |-> PyNone, num |-> 0, bool |-> FALSE, dfn |-> NoDfn]
NumE(k, n) == [key |-> k, kind |-> "num", str |-> PyNone, num |-> n, bool |-> FALSE, dfn |-> NoDfn]
BoolE(k, b) == [key |-> k, kind |-> "bool", str |-> PyNone, num |-> 0, bool |-> b, dfn |-> NoDfn]
DictE(k, d) == [key |-> k, kind |-> "dict", str |-> PyNone, num |-> 0, bool |-> FALSE, dfn |-> d]

HasKey(source, k) == \E i \in 1..Len(source) : source[i].key = k
Entry(source, k) == source[CHOOSE i \in 1..Len(source) : source[i].key = k]
Keys(source) == {source[i].key : i \in 1..Len(source)}

(***************************************************************************)
(* Term and the term table.                                                *)
(***************************************************************************)
Term(id, name, type, container, index, language, reverse, context, prefix) ==
    [id |-> id, name |-> name, type |-> type, container |-> container,
     index |-> index, language |-> language, reverse |-> reverse,
     context |-> context, prefix |-> prefix]

\* d[k] = v for a dict held as a function
Put(d, k, v) == [x \in (DOMAIN d) \cup {k} |-> IF x = k THEN v ELSE d[x]]

EmptyDict == [x \in {} |-> x]

\* the container argument as the set add_term stores
ContainerSet(container) ==
    IF container.list THEN Range(container.items) ELSE {container.val}

ContainerKey(cset) ==
    IF LIST \in cset THEN LIST
    ELSE IF LANG \in cset THEN LANG
    ELSE IF SET \in cset THEN SET
    ELSE UNDEF

PrefixFlag(version, idref, prefix) ==
    IF version < V11 \/ prefix = "none"
    THEN IsStr(idref) /\ EndsWithDelim(idref)
    ELSE prefix = "true"

LookupKey(idref, coercion, language, container_key, reverse) ==
    <<idref, PyOr(coercion, language), container_key, reverse>>

\* Context.add_term on the context record c
add_term(c, name, idref, coercion, container, index, language, reverse, context, prefix) ==
    LET pfx == PrefixFlag(c.version, idref, prefix)
        cset == ContainerSet(container)
        term == Term(idref, name, coercion, cset, index, language, reverse, context, pfx)
        key == LookupKey(idref, coercion, language, ContainerKey(cset), reverse)
    IN [c EXCEPT !.terms = Put(c.terms, name, term),
                 !.lookup = Put(c.lookup, key, term),
                 !.prefixes = IF pfx THEN Put(c.prefixes, idref, name) ELSE c.prefixes]

NotFound == [found |-> FALSE]
Found(t) == [found |-> TRUE, term |-> t]

LuGet(lu, key) == IF key \in DOMAIN lu THEN Found(lu[key]) ELSE NotFound

\* find_term trying the generic entry first
find_term_generic_first(c, idref, coercion0, container, language, reverse) ==
    LET lu == c.lookup
        coercion == IF coercion0 = PyNone THEN language ELSE coercion0
        g == LuGet(lu, <<idref, UNDEF, UNDEF, reverse>>)
        f1 == IF coercion # UNDEF /\ Truthy(container)
              THEN LuGet(lu, <<idref, coercion, container, reverse>>) ELSE NotFound
        f2 == IF coercion # UNDEF
              THEN LuGet(lu, <<idref, coercion, UNDEF, reverse>>) ELSE NotFound
        f3 == IF Truthy(container)
              THEN LuGet(lu, <<idref, coercion, container, reverse>>)
              ELSE IF Truthy(language)
              THEN LuGet(lu, <<idref, UNDEF, LANG, reverse>>)
              ELSE LuGet(lu, <<idref, PyOr(coercion, UNDEF), SET, reverse>>)
    IN IF g.found THEN g
       ELSE IF f1.found THEN f1
       ELSE IF f2.found THEN f2
       ELSE f3

\* Context.find_term; coercion and language default to None, container to UNDEF
find_term(c, idref, coercion0, container, language, reverse) ==
    LET lu == c.lookup
        coercion == IF coercion0 = PyNone THEN language ELSE coercion0
        f1 == IF coercion # UNDEF /\ Truthy(container)
              THEN LuGet(lu, <<idref, coercion, container, reverse>>) ELSE NotFound
        f2 == IF coercion # UNDEF
              THEN LuGet(lu, <<idref, coercion, UNDEF, reverse>>) ELSE NotFound
        f3 == IF Truthy(container)
              THEN LuGet(lu, <<idref, coercion, container, reverse>>)
              ELSE IF Truthy(language)
              THEN LuGet(lu, <<idref, UNDEF, LANG, reverse>>)
              ELSE LuGet(lu, <<idref, PyOr(coercion, UNDEF), SET, reverse>>)
    IN IF f1.found THEN f1
       ELSE IF f2.found THEN f2
       ELSE IF f3.found THEN f3
       ELSE LuGet(lu, <<idref, UNDEF, UNDEF, reverse>>)

(***************************************************************************)
(* The inputs: strings, context bodies, remote documents.                  *)
(***************************************************************************)
Vex == <<"h", ":", "/", "/", "e", "/">>
IriN == Vex \o <<"N">>
IriM == Vex \o <<"M">>
UrlA == <<"h", ":", "/", "/", "a">>
UrlB == <<"h", ":", "/", "/", "b">>
UrlC == <<"h", ":", "/", "/", "c">>
UrlD == <<"h", ":", "/", "/", "d">>

Body(id) ==
    CASE id = "root" ->
           <<NumE(VERSION, V11), StrE(VOCAB, Vex), StrE(<<"e", "x">>, Vex),
             StrE(<<"n">>, IriN), StrE(<<"i">>, ID),
             DictE(<<"A">>, [NoDfn EXCEPT !.id = <<"e", "x", ":", "A">>]),
             DictE(<<"Z">>, [NoDfn EXCEPT !.id = <<"e", "x", ":", "Z">>,
                                          !.context = Inline("tz")]),
             DictE(<<"p">>, [NoDfn EXCEPT !.context = Inline("tp")])>>
      [] id = "tz" ->
           <<StrE(<<"s">>, ID), StrE(<<"n">>, IriM)>>
      [] id = "tp" ->
           <<DictE(<<"q">>, [NoDfn EXCEPT !.id = IriN, !.container = Scalar(SET)]),
             DictE(<<"t">>, [NoDfn EXCEPT !.id = IriN, !.type = ID,
                                          !.container = Scalar(LIST)])>>
      [] id = "np" ->
           <<BoolE(PROPAGATE, FALSE), NumE(VERSION, V11),
             DictE(<<"l">>, [NoDfn EXCEPT !.id = IriN, !.language = PyNone])>>
      [] id = "ab" ->
           <<StrE(<<"a">>, <<"b">>), StrE(<<"b">>, <<"a">>)>>
      [] id = "abxy" ->
           <<StrE(<<"a">>, <<"b", ":", "x">>), StrE(<<"b">>, <<"a", ":", "y">>)>>
      [] id = "chain" ->
           <<StrE(VOCAB, Vex), StrE(<<"a">>, <<"b", ":", "x">>), StrE(<<"b">>, Vex)>>
      [] OTHER -> <<>>

\* urljoin(base, url) for the absolute references of the inputs
urljoin(base, url) == IF HasColon(url) \/ ~IsStr(base) THEN url ELSE base \o url

\* the fetch capability: the document at url, None, or a failure
source_to_json(url) ==
    CASE url = UrlA -> [kind |-> "doc", doc |-> Wrapped(Inline("tz"))]
      [] url = UrlB -> [kind |-> "doc", doc |-> Inline("tp")]
      [] url = UrlC -> [kind |-> "error", doc |-> NoSource]
      [] url = UrlD -> [kind |-> "doc", doc |-> Wrapped(ListOf(<<Inline("tp"), Ref(UrlD)>>))]
      [] OTHER -> [kind |-> "none", doc |-> NoSource]

(***************************************************************************)
(* Reading term definitions.                                               *)
(***************************************************************************)
\* Context._prep_expand
_prep_expand(expr) ==
    IF ~HasColon(expr) THEN [is_term |-> TRUE, pfx |-> PyNone, local |-> expr]
    ELSE LET i == FirstColon(expr)
             pfx == SubSeq(expr, 1, i - 1)
             local == SubSeq(expr, i + 1, Len(expr))
         IN IF ~StartsWith(local, <<"/", "/">>)
            THEN [is_term |-> FALSE, pfx |-> pfx, local |-> local]
            ELSE [is_term |-> FALSE, pfx |-> PyNone, local |-> expr]

\* Context._get_source_id; the inputs refer to string and dict entries only
_get_source_id(c, source, key) ==
    LET e == IF HasKey(source, key) THEN Entry(source, key) ELSE NullE(key)
    IN IF e.kind = "str" THEN e.str
       ELSE IF e.kind = "dict" THEN (IF e.dfn.id = UNDEF THEN PyNone ELSE e.dfn.id)
       ELSE IF key \in DOMAIN c.terms THEN c.terms[key].id
       ELSE PyNone

Return(v) == [kind |-> "return", val |-> v]
Call(v) == [kind |-> "call", val |-> v]
Raise(e) == [kind |-> "raise", val |-> <<>>, err |-> e]

\* the prefix branch of _rec_expand, iri0 being _get_source_id(source, pfx);
\* adding a non-string id to a string raises TypeError
FramePrefix(c, expr, p, iri0) ==
    LET iri == IF iri0 = PyNone /\ p.pfx \in DOMAIN c.terms
               THEN c.terms[p.pfx].id ELSE iri0
    IN IF iri0 = PyNone /\ c.vocab = p.pfx \o <<":">> THEN Return(expr)
       ELSE IF iri = PyNone THEN Call(expr)
       ELSE IF ~IsStr(iri) THEN Raise("TypeError")
       ELSE Call(iri \o p.local)

\* the other branch of _rec_expand, nxt being _get_source_id(source, nxt) or nxt
FrameWord(c, nxt) ==
    IF ~HasColon(nxt) /\ Truthy(c.vocab) THEN Return(c.vocab \o nxt) ELSE Call(nxt)

\* _rec_expand after is_term, pfx, nxt = self._prep_expand(expr)
FrameSplit(c, source, expr, p) ==
    IF Truthy(p.pfx)
    THEN FramePrefix(c, expr, p, _get_source_id(c, source, p.pfx))
    ELSE FrameWord(c, PyOr(_get_source_id(c, source, p.local), p.local))

\* one activation of Context._rec_expand: return a value, or call itself with
\* (nxt, expr)
_rec_expand_frame(c, source, expr, prev) ==
    IF expr = prev \/ expr \in NODE_KEYS THEN Return(expr)
    ELSE FrameSplit(c, source, expr, _prep_expand(expr))

\* Context._rec_expand, on a call stack of RecursionLimit frames
RECURSIVE _rec_expand(_, _, _, _, _)
RecNext(c, source, expr, depth, f) ==
    IF f.kind = "call" THEN _rec_expand(c, source, f.val, expr, depth + 1) ELSE f

_rec_expand(c, source, expr, prev, depth) ==
    IF depth > RecursionLimit THEN Raise("RecursionError")
    ELSE RecNext(c, source, expr, depth, _rec_expand_frame(c, source, expr, prev))

\* self._alias.setdefault(idref, []).append(name), on the heap of list objects
AliasAppend(st, idref, name) ==
    IF idref \in DOMAIN st.c.alias
    THEN [st EXCEPT !.h[st.c.alias[idref]] = Append(@, name)]
    ELSE [st EXCEPT !.h = Append(@, <<name>>),
                    !.c.alias = Put(@, idref, Len(st.h) + 1)]

Failed(st, e) == [st EXCEPT !.err = e]

\* self._rec_expand(source, expr) when the code calls it, value otherwise
ExpandIf(c, source, called, expr, value) ==
    IF called THEN _rec_expand(c, source, expr, PyNone, 1) ELSE Return(value)

\* rev or dfn.get(ID, UNDEF)
IdrefGiven(dfn) == PyOr(dfn.rev, dfn.id)

\* the idref of a definition: what _rec_expand is called on, if it is, and
\* the idref otherwise
IdrefExpr(e) ==
    IF e.kind = "dict"
    THEN (IF IdrefGiven(e.dfn) # UNDEF THEN IdrefGiven(e.dfn) ELSE e.key)
    ELSE e.str

IdrefCalled(e) ==
    IF e.kind = "dict"
    THEN IdrefGiven(e.dfn) # TYPE /\ (IdrefGiven(e.dfn) # UNDEF \/ HasColon(e.key))
    ELSE e.kind = "str"

IdrefOther(c, e) ==
    IF e.kind # "dict" THEN PyNone
    ELSE IF IdrefGiven(e.dfn) = TYPE THEN RDF_type
    ELSE IF Truthy(c.vocab) THEN c.vocab \o e.key
    ELSE UNDEF

CoercionCalled(e) ==
    e.kind = "dict" /\ Truthy(e.dfn.type) /\ e.dfn.type \notin {ID, TYPE, VOCAB}

\* the call of add_term that _read_term makes for entry e
AddTermOf(c, e, idref, coercion) ==
    IF e.kind = "dict"
    THEN add_term(c, e.key, idref, coercion, e.dfn.container, e.dfn.index,
                  e.dfn.language, Truthy(e.dfn.rev), e.dfn.context, e.dfn.prefix)
    ELSE add_term(c, e.key, idref, UNDEF, Scalar(UNDEF), PyNone, UNDEF, FALSE,
                  NoSource, "none")

\* if idref in NODE_KEYS: self._alias.setdefault(idref, []).append(name)
AliasOf(st, idref, name) ==
    IF idref \in NODE_KEYS THEN AliasAppend(st, idref, name) ELSE st

\* _read_term once idref (idx) and coercion (cox) are expanded
ReadTermWith(st, e, idx, cox) ==
    IF idx.kind = "raise" THEN Failed(st, idx.err)
    ELSE IF cox.kind = "raise" THEN Failed(st, cox.err)
    ELSE AliasOf([st EXCEPT !.c = AddTermOf(st.c, e, idx.val, cox.val)], idx.val, e.key)

\* Context._read_term for the entry e of source
_read_term(st, source, e) ==
    ReadTermWith(st, e,
        ExpandIf(st.c, source, IdrefCalled(e), IdrefExpr(e), IdrefOther(st.c, e)),
        ExpandIf(st.c, source, CoercionCalled(e), e.dfn.type, e.dfn.type))

\* the property setter of Context.base; norm_url leaves an absolute IRI as it is
BaseSetter(c, base) ==
    LET cut == IF IsStr(base) /\ "#" \in Range(base)
               THEN SubSeq(base, 1, (CHOOSE i \in 1..Len(base) : base[i] = "#"
                                       /\ \A j \in 1..(i-1) : base[j] # "#") - 1)
               ELSE base
    IN [c EXCEPT !.base = cut]

\* the loop of Context._read_source over source.items(), from entry i on
RECURSIVE ReadItems(_, _, _, _)
ReadItems(st, source, source_url, i) ==
    IF i > Len(source) \/ st.err # "" THEN st
    ELSE LET e == source[i]
             st1 == IF e.key \in {VOCAB, VERSION} THEN st
                    ELSE IF e.key = PROPAGATE /\ e.kind = "bool"
                    THEN [st EXCEPT !.c.propagate = e.bool]
                    ELSE IF e.key = LANG THEN [st EXCEPT !.c.language = e.str]
                    ELSE IF e.key = BASE
                    THEN (IF Truthy(source_url) THEN st
                          ELSE [st EXCEPT !.c = BaseSetter(st.c, e.str)])
                    ELSE _read_term(st, source, e)
         IN ReadItems(st1, source, source_url, i + 1)

\* Context._read_source
_read_source(st, source, source_url) ==
    LET vocab == IF HasKey(source, VOCAB) THEN Entry(source, VOCAB).str ELSE st.c.vocab
        version == IF HasKey(source, VERSION) THEN Entry(source, VERSION).num
                   ELSE st.c.version
    IN ReadItems([st EXCEPT !.c.vocab = vocab, !.c.version = version],
                 source, source_url, 1)

(***************************************************************************)
(* Flattening and loading.                                                 *)
(***************************************************************************)
\* referenced_contexts = referenced_contexts or set(): an empty set passed in
\* is replaced by a new one, so the caller's set stays as it was
AfterCall(mine, callee) == IF mine = {} THEN mine ELSE callee

\* Context._prep_sources over inputs[i..]; acc holds sources, the set
\* referenced_contexts of this activation, the error raised, if any, and the
\* URLs handed to source_to_json so far in the call, in order
RECURSIVE _prep_sources(_, _, _, _, _)
_prep_sources(base, inputs, acc, in_source_url, i) ==
    IF i > Len(inputs) \/ acc.err # "" THEN acc
    ELSE
    LET source0 == inputs[i]
        rest(a) == _prep_sources(base, inputs, a, in_source_url, i + 1)
        isref == source0.kind = "ref"
        source_url == IF isref THEN urljoin(base, source0.url) ELSE in_source_url
        got == IF isref THEN source_to_json(source_url) ELSE [kind |-> "doc", doc |-> source0]
        refd == IF isref THEN acc.refd \cup {source_url} ELSE acc.refd
        fetched == IF isref THEN Append(acc.fetched, source_url) ELSE acc.fetched
        source == got.doc
        inner == IF source.kind = "wrap"
                 THEN (IF source.inner.kind = "list" THEN source.inner.items
                       ELSE <<source.inner>>)
                 ELSE IF source.kind = "list" THEN source.items
                 ELSE <<>>
    IN IF source0.kind = "null" THEN rest(acc)
       ELSE IF isref /\ source_url \in acc.refd
       THEN [acc EXCEPT !.err = "RecursiveContextInclusion"]
       ELSE IF got.kind = "error"
       THEN [acc EXCEPT !.refd = refd, !.fetched = fetched, !.err = "FetchError"]
       ELSE IF got.kind = "none" THEN rest([acc EXCEPT !.refd = refd, !.fetched = fetched])
       ELSE IF isref /\ source.kind # "wrap"
       THEN [acc EXCEPT !.refd = refd, !.fetched = fetched,
                        !.err = "InvalidRemoteContext"]
       ELSE IF source.kind \in {"wrap", "list"}
       THEN LET sub == _prep_sources(base, inner,
                           [acc EXCEPT !.refd = refd, !.fetched = fetched],
                           source_url, 1)
            IN rest([sub EXCEPT !.refd = AfterCall(refd, sub.refd)])
       ELSE rest([acc EXCEPT !.refd = refd, !.fetched = fetched,
                             !.sources = Append(@, <<source_url, source>>)])

\* the loop of Context.load over the flattened sources
RECURSIVE ReadSources(_, _, _)
ReadSources(st, sources, i) ==
    IF i > Len(sources) \/ st.err # "" THEN st
    ELSE ReadSources(_read_source(st, Body(sources[i][2].id), sources[i][1]),
                     sources, i + 1)

Flatten(source) ==
    _prep_sources(PyNone, IF source.kind = "list" THEN source.items ELSE <<source>>,
                  [sources |-> <<>>, refd |-> {}, fetched |-> <<>>, err |-> ""],
                  PyNone, 1)

\* load reading the bodies flattened before a failure
Commit_as_flattened(st, flat) ==
    IF flat.err # ""
    THEN Failed(ReadSources([st EXCEPT !.fetched = flat.fetched], flat.sources, 1),
                flat.err)
    ELSE ReadSources([st EXCEPT !.fetched = flat.fetched], flat.sources, 1)

\* the loop of load, entered when _prep_sources has returned
Commit(st, flat) ==
    IF flat.err # "" THEN Failed([st EXCEPT !.fetched = flat.fetched], flat.err)
    ELSE ReadSources([st EXCEPT !.fetched = flat.fetched], flat.sources, 1)

\* Context.load(source) on the context st.c; st.err names the exception raised
load(st, source) == Commit([st EXCEPT !.c.active = TRUE], Flatten(source))

(***************************************************************************)
(* Context objects.                                                        *)
(***************************************************************************)
NoCtx == 0

\* Context.__init__ before the load: version or 1.0, empty tables
Context(version) ==
    [version |-> IF version = 0 THEN V10 ELSE version,
     language |-> PyNone, vocab |-> PyNone, base |-> PyNone, doc_base |-> PyNone,
     terms |-> EmptyDict, alias |-> EmptyDict, lookup |-> EmptyDict,
     prefixes |-> EmptyDict, active |-> FALSE, parent |-> NoCtx, propagate |-> TRUE]

\* the parent a child of self gets, without the skip of a non-propagating self
EffectiveParent_self(cs, self) == self

\* the parent a child of self gets: parent = self.parent if self.propagate is False else self
EffectiveParent(cs, self) == IF cs[self].propagate = FALSE THEN cs[self].parent ELSE self

\* dict.copy() of self._alias: a new dict holding the same list objects
CopyAlias(alias) == alias

Heap(cs, h, err, result, fetched) ==
    [ctxs |-> cs, alists |-> h, err |-> err, result |-> result, fetched |-> fetched]

\* the state load works on: the context, the list objects, the exception raised
Loading(c, h) == [c |-> c, h |-> h, err |-> "", fetched |-> <<>>]

\* the child subcontext builds from its parent P before ctx.load(source)
ChildOf(P, parent, propagate) ==
    [BaseSetter(Context(P.version), P.base) EXCEPT
        !.propagate = propagate, !.parent = parent,
        !.language = P.language, !.vocab = P.vocab,
        !.doc_base = P.doc_base, !.alias = CopyAlias(P.alias),
        !.terms = P.terms, !.lookup = P.lookup, !.prefixes = P.prefixes]

\* return ctx, when ctx.load(source) has left st; the child is object Len(cs) + 1
Child(cs, st) ==
    IF st.err # "" THEN Heap(cs, st.h, st.err, NoCtx, st.fetched)
    ELSE Heap(Append(cs, st.c), st.h, "", Len(cs) + 1, st.fetched)

SubcontextOf(cs, h, parent, source, propagate) ==
    IF parent = NoCtx THEN Heap(cs, h, "AttributeError", NoCtx, <<>>)
    ELSE Child(cs, load(Loading(ChildOf(cs[parent], parent, propagate), h), source))

\* Context.subcontext on object self
subcontext(cs, h, self, source, propagate) ==
    SubcontextOf(cs, h, EffectiveParent(cs, self), source, propagate)

\* Context._get: the value of key, or of its first alias present in obj
RECURSIVE FirstAlias(_, _, _)
FirstAlias(names, obj, i) ==
    IF i > Len(names) THEN 0
    ELSE IF names[i] \in DOMAIN obj THEN i
    ELSE FirstAlias(names, obj, i + 1)

NoValue == [list |-> FALSE, val |-> PyNone, items |-> <<>>]

_get(c, h, obj, key) ==
    LET names == IF key \in DOMAIN c.alias THEN h[c.alias[key]] ELSE <<>>
        a == FirstAlias(names, obj, 1)
    IN IF a > 0 THEN obj[names[a]]
       ELSE IF key \in DOMAIN obj THEN obj[key]
       ELSE NoValue

get_type(c, h, obj) == _get(c, h, obj, TYPE)

\* the term of the first of the sorted types that is a key of self.terms
RECURSIVE FirstTypeTerm(_, _, _)
FirstTypeTerm(c, rtypes, i) ==
    IF i > Len(rtypes) THEN NotFound
    ELSE IF rtypes[i] \in DOMAIN c.terms THEN Found(c.terms[rtypes[i]])
    ELSE FirstTypeTerm(c, rtypes, i + 1)

\* rtype as the list get_context_for sorts
TypeValues(rt) ==
    IF rt.list THEN Range(rt.items)
    ELSE IF Truthy(rt.val) THEN {rt.val} ELSE {}

\* get_context_for once typeterm is found: the scoped context and its
\* propagate flag, if one is activated
Scoped(c, key, typeterm) ==
    IF c.version >= V11 /\ typeterm.found /\ typeterm.term.context # NoSource
    THEN [context |-> typeterm.term.context, propagate |-> FALSE]
    ELSE IF c.version >= V11 /\ key \in DOMAIN c.terms /\ c.terms[key].context # NoSource
    THEN [context |-> c.terms[key].context, propagate |-> TRUE]
    ELSE [context |-> NoSource, propagate |-> TRUE]

Activate(cs, h, self, scoped) ==
    IF scoped.context # NoSource
    THEN subcontext(cs, h, self, scoped.context, scoped.propagate)
    ELSE Heap(cs, h, "", IF cs[self].propagate = FALSE THEN cs[self].parent ELSE self,
              <<>>)

\* Context.get_context_for on object self
get_context_for(cs, h, self, key, node) ==
    Activate(cs, h, self,
        Scoped(cs[self], key,
               FirstTypeTerm(cs[self], Sorted(TypeValues(get_type(cs[self], h, node))), 1)))

(***************************************************************************)
(* Compaction and expansion.                                               *)
(***************************************************************************)
LastIndex(s, d) ==
    IF d \in Range(s)
    THEN CHOOSE i \in 1..Len(s) : s[i] = d /\ \A j \in (i+1)..Len(s) : s[j] # d
    ELSE 0

\* split_iri: the namespace up to and including the last "#", "/" or ":" (in
\* that order of preference), and the local name after it
split_iri(iri) ==
    LET at == IF LastIndex(iri, "#") > 0 THEN LastIndex(iri, "#")
              ELSE IF LastIndex(iri, "/") > 0 THEN LastIndex(iri, "/")
              ELSE LastIndex(iri, ":")
    IN IF at > 0 THEN [ns |-> SubSeq(iri, 1, at), name |-> SubSeq(iri, at + 1, Len(iri))]
       ELSE [ns |-> iri, name |-> PyNone]

\* scheme://authority of base, as the base setter keeps it in _basedomain
BaseDomain(base) ==
    IF ~IsStr(base) THEN PyNone
    ELSE LET i == FirstColon(base)
             after == {j \in (i+3)..Len(base) : base[j] = "/"}
         IN IF after = {} THEN base
            ELSE SubSeq(base, 1, (CHOOSE j \in after : \A k \in after : j <= k) - 1)

\* Context.shrink_iri
shrink_iri(c, iri) ==
    LET sp == split_iri(iri)
    IN IF sp.ns \in DOMAIN c.prefixes /\ Truthy(c.prefixes[sp.ns])
       THEN c.prefixes[sp.ns] \o <<":">> \o sp.name
       ELSE IF Truthy(c.base) /\ iri = c.base THEN <<>>
       ELSE IF Truthy(c.base) /\ StartsWith(iri, BaseDomain(c.base))
       THEN SubSeq(iri, Len(BaseDomain(c.base)) + 1, Len(iri))
       ELSE iri

\* to_symbol trying the vocab before the terms
to_symbol_vocab_first(c, iri) ==
    LET term == find_term(c, iri, PyNone, UNDEF, PyNone, FALSE)
        sp == split_iri(iri)
    IN IF sp.ns = c.vocab THEN sp.name
       ELSE IF term.found THEN term.term.name
       ELSE IF sp.ns \in DOMAIN c.prefixes /\ Truthy(c.prefixes[sp.ns])
       THEN c.prefixes[sp.ns] \o <<":">> \o sp.name
       ELSE iri

\* Context.to_symbol
to_symbol(c, iri) ==
    LET term == find_term(c, iri, PyNone, UNDEF, PyNone, FALSE)
        sp == split_iri(iri)
    IN IF term.found THEN term.term.name
       ELSE IF sp.ns = c.vocab THEN sp.name
       ELSE IF sp.ns \in DOMAIN c.prefixes /\ Truthy(c.prefixes[sp.ns])
       THEN c.prefixes[sp.ns] \o <<":">> \o sp.name
       ELSE iri

\* Context.expand(term_curie_or_iri, use_vocab) for a string; resolve_iri
\* leaves an absolute IRI as it is and resolves a relative one against base
expand(c, s, use_vocab) ==
    LET p == _prep_expand(s)
    IN IF use_vocab /\ s \in DOMAIN c.terms THEN c.terms[s].id
       ELSE IF p.pfx = <<"_">> THEN s
       ELSE IF p.pfx # PyNone /\ p.pfx \in DOMAIN c.terms
               /\ c.terms[p.pfx].prefix /\ Truthy(c.terms[p.pfx].id)
       THEN c.terms[p.pfx].id \o p.local
       ELSE IF p.pfx = PyNone /\ p.is_term /\ use_vocab
       THEN (IF Truthy(c.vocab) THEN c.vocab \o s ELSE PyNone)
       ELSE urljoin(c.base, s)

(***************************************************************************)
(* The calls a client makes.                                               *)
(***************************************************************************)
Sources ==
    {Inline("root"), Inline("tz"), Inline("np"),
     ListOf(<<ListOf(<<Ref(UrlA)>>), Ref(UrlA)>>),
     ListOf(<<Inline("tz"), Ref(UrlB)>>),
     ListOf(<<Inline("tp"), Ref(UrlC)>>),
     Ref(UrlD)}

TypeOf(v) == [x \in {TYPE} |-> v]

Nodes ==
    {EmptyDict,
     TypeOf(Scalar(<<"Z">>)),
     TypeOf([list |-> TRUE, val |-> PyNone, items |-> <<<<"Z">>, <<"A">>>>])}

PropertyKeys == {<<"p">>, <<"n">>}

\* the (idref, container) pairs add_term is called with
AddTermArgs == {<<IriM, Scalar(UNDEF)>>, <<IriN, Scalar(SET)>>}

Idle == [status |-> "idle"]

Call0 ==
    [op |-> "none", self |-> NoCtx, source |-> NoSource, propagate |-> TRUE,
     key |-> <<>>, node |-> EmptyDict, err |-> "", result |-> NoCtx,
     fetched |-> <<>>]

Init ==
    /\ ctxs = <<>>
    /\ alists = <<>>
    /\ last = Call0
    /\ nops = 0
    /\ rx = Idle

\* the objects and the history after a call that ended with r
Returned(call, r) ==
    /\ ctxs' = r.ctxs
    /\ alists' = r.alists
    /\ last' = [call EXCEPT !.err = r.err, !.result = r.result, !.fetched = r.fetched]
    /\ nops' = nops + 1
    /\ UNCHANGED rx

\* __init__: if source: self.load(source)
Constructed(source) ==
    IF source.kind = "null" THEN Loading(Context(0), alists)
    ELSE load(Loading(Context(0), alists), source)

\* ctx = Context(source), the root context of a run
NewContext(source) ==
    /\ nops < MaxOps
    /\ ctxs = <<>>
    /\ Returned([Call0 EXCEPT !.op = "Context", !.source = source],
                Child(ctxs, Constructed(source)))

\* the object self after its load has left st
Mutated(self, st) ==
    Heap([ctxs EXCEPT ![self] = st.c], st.h, st.err, NoCtx, st.fetched)

\* ctxs[self].load(source)
Load(self, source) ==
    /\ nops < MaxOps
    /\ Returned([Call0 EXCEPT !.op = "load", !.self = self, !.source = source],
                Mutated(self, load(Loading(ctxs[self], alists), source)))

\* ctxs[self].subcontext(source, propagate)
Subcontext(self, source, propagate) ==
    /\ nops < MaxOps
    /\ Len(ctxs) < MaxCtx
    /\ Returned([Call0 EXCEPT !.op = "subcontext", !.self = self, !.source = source,
                                !.propagate = propagate],
                subcontext(ctxs, alists, self, source, propagate))

\* ctxs[self].get_context_for(key, node)
GetContextFor(self, key, node) ==
    /\ nops < MaxOps
    /\ Len(ctxs) < MaxCtx
    /\ Returned([Call0 EXCEPT !.op = "get_context_for", !.self = self, !.key = key,
                                !.node = node],
                get_context_for(ctxs, alists, self, key, node))

\* ctxs[self].add_term(name, idref, container=container)
AddTerm(self, name, idref, container) ==
    /\ nops < MaxOps
    /\ ctxs' = [ctxs EXCEPT ![self] = add_term(@, name, idref, UNDEF, container,
                                  PyNone, UNDEF, FALSE, NoSource, "none")]
    /\ last' = [Call0 EXCEPT !.op = "add_term", !.self = self, !.key = name]
    /\ nops' = nops + 1
    /\ UNCHANGED <<alists, rx>>

Next ==
    \/ \E source \in Sources \cup {NoSource} : NewContext(source)
    \/ \E self \in 1..Len(ctxs), source \in Sources : Load(self, source)
    \/ \E self \in 1..Len(ctxs), source \in Sources, propagate \in BOOLEAN :
          Subcontext(self, source, propagate)
    \/ \E self \in 1..Len(ctxs), key \in PropertyKeys, node \in Nodes :
          GetContextFor(self, key, node)
    \/ \E self \in 1..Len(ctxs), a \in AddTermArgs :
          AddTerm(self, <<"n">>, a[1], a[2])

Spec == Init /\ [][Next]_vars

(***************************************************************************)
(* What the claims speak of.                                               *)
(***************************************************************************)
\* the alias table of a context as keyword -> ordered alias list
AliasTable(c, h) == [k \in DOMAIN c.alias |-> h[c.alias[k]]]

Tables(c, h) ==
    [terms |-> c.terms, alias |-> AliasTable(c, h), prefixes |-> c.prefixes,
     lookup |-> c.lookup]

Observed(c, h) ==
    [tables |-> Tables(c, h), vocab |-> c.vocab, language |-> c.language,
     base |-> c.base, version |-> c.version, propagate |-> c.propagate]

RECURSIVE SelfAndAncestors(_, _)
SelfAndAncestors(cs, i) ==
    IF i = NoCtx THEN {} ELSE {i} \cup SelfAndAncestors(cs, cs[i].parent)

FlattenErrors == {"RecursiveContextInclusion", "InvalidRemoteContext", "FetchError"}

NoRepeat(seq) == \A i, j \in 1..Len(seq) : seq[i] = seq[j] => i = j

\* the names the bodies of source define
RECURSIVE NamesOf(_, _)
NamesOf(sources, i) ==
    IF i > Len(sources) THEN {}
    ELSE Keys(Body(sources[i][2].id)) \cup NamesOf(sources, i + 1)

DefinedBy(source) == NamesOf(Flatten(source).sources, 1)

\* C1: creating a child context (subcontext, get_context_for) leaves the
\* context it is called on, and all of its ancestors, with the same term
\* table, alias table, prefix table, lookup index, vocab, language, base,
\* version and propagate flag.
C1_ChildNeverMutatesAncestor ==
    [][last'.op \in {"subcontext", "get_context_for"} =>
          \A i \in SelfAndAncestors(ctxs, last'.self) :
              Observed(ctxs'[i], alists') = Observed(ctxs[i], alists)]_vars

\* C2: a load that raises RecursiveContextInclusion, InvalidRemoteContext or
\* a fetch failure leaves the term table, alias table, prefix table and
\* lookup index of its context as they were before the call.
C2_LoadAllOrNothing ==
    [][(last'.op = "load" /\ last'.err \in FlattenErrors) =>
          Tables(ctxs'[last'.self], alists') = Tables(ctxs[last'.self], alists)]_vars

\* a failed load of a list in which an inline body precedes the failing
\* reference, on a context that has terms
C2_Witness ==
    /\ last.op = "load"
    /\ last.err = "InvalidRemoteContext"
    /\ last.source = ListOf(<<Inline("tz"), Ref(UrlB)>>)
    /\ DOMAIN ctxs[last.self].terms # {}
    /\ <<"s">> \notin DOMAIN ctxs[last.self].terms

\* C3: a reference whose resolved IRI was already resolved earlier in the
\* same call makes the call fail with RecursiveContextInclusion, so no call
\* resolves and fetches the same IRI twice.
C3_RevisitFails == NoRepeat(last.fetched)

\* the type-scoped context get_context_for is claimed to activate: that of
\* the lexicographically first type whose term carries a nested context
ScopedTypes(c, h, node) ==
    LET rt == get_type(c, h, node)
        rtype == IF rt.list THEN Range(rt.items)
                 ELSE IF Truthy(rt.val) THEN {rt.val} ELSE {}
    IN {t \in rtype : t \in DOMAIN c.terms /\ c.terms[t].context # NoSource}

FirstScopedType(S) == CHOOSE t \in S : \A u \in S \ {t} : StrLess(t, u)

\* C4: in a version >= 1.1 context, when a type of the node has a term with
\* a nested context, get_context_for returns a new child built from the
\* nested context of the lexicographically first such type, propagate false.
C4_FirstScopedTypeWins ==
    [][(/\ last'.op = "get_context_for"
        /\ ctxs[last'.self].version >= V11
        /\ ScopedTypes(ctxs[last'.self], alists, last'.node) # {}) =>
          LET c == ctxs[last'.self]
              t == FirstScopedType(ScopedTypes(c, alists, last'.node))
              r == subcontext(ctxs, alists, last'.self, c.terms[t].context, FALSE)
          IN ctxs' = r.ctxs /\ last'.result = r.result /\ last'.err = r.err]_vars

\* C5: when get_context_for activates no scoped context it returns an
\* existing context whose own propagate flag is true, never None.
C5_ReturnsPropagatingContext ==
    [][(last'.op = "get_context_for" /\ last'.err = "" /\ Len(ctxs') = Len(ctxs)) =>
          /\ last'.result # NoCtx
          /\ ctxs'[last'.result].propagate]_vars

Plain(t) ==
    /\ IsStr(t.id) /\ t.type = UNDEF /\ t.container = {UNDEF}
    /\ t.language = UNDEF /\ ~t.reverse

\* the case of C7: a vocab, a prefix registered for the vocab's namespace and
\* a plain term n whose id lies in that namespace
C7_Case(c, n) ==
    /\ Truthy(c.vocab)
    /\ n \in DOMAIN c.terms /\ Plain(c.terms[n])
    /\ split_iri(c.terms[n].id).ns = c.vocab
    /\ c.vocab \in DOMAIN c.prefixes

\* C7 as stated: in that case shrink_iri and to_symbol of the term's id both
\* return the term's name.
C7_ExactTermBeatsPrefix ==
    \A i \in 1..Len(ctxs) : \A n \in DOMAIN ctxs[i].terms :
        C7_Case(ctxs[i], n) =>
            /\ shrink_iri(ctxs[i], ctxs[i].terms[n].id) = n
            /\ to_symbol(ctxs[i], ctxs[i].terms[n].id) = n

\* C7 as amended: in that case shrink_iri returns prefix:localName, and
\* to_symbol returns the term's name when the lookup index holds the term as
\* the generic entry of its id and holds no entry of that id with a None
\* coercion-or-language or a @set container.
C7_ToSymbolExactShrinkPrefix ==
    \A i \in 1..Len(ctxs) : \A n \in DOMAIN ctxs[i].terms :
        LET c == ctxs[i]
            x == c.terms[n].id
        IN C7_Case(c, n) =>
            /\ shrink_iri(c, x) = c.prefixes[c.vocab] \o <<":">> \o split_iri(x).name
            /\ (/\ <<x, UNDEF, UNDEF, FALSE>> \in DOMAIN c.lookup
                /\ c.lookup[<<x, UNDEF, UNDEF, FALSE>>] = c.terms[n]
                /\ <<x, PyNone, UNDEF, FALSE>> \notin DOMAIN c.lookup
                /\ <<x, UNDEF, SET, FALSE>> \notin DOMAIN c.lookup)
               => to_symbol(c, x) = n

C7_Witness ==
    \E i \in 1..Len(ctxs) :
        /\ C7_Case(ctxs[i], <<"n">>)
        /\ ctxs[i].terms[<<"n">>].id = IriN
        /\ to_symbol(ctxs[i], IriN) = <<"n">>
        /\ shrink_iri(ctxs[i], IriN) = <<"e", "x", ":", "N">>

\* the keys find_term is said to try, in order; a key that does not apply
\* to the arguments is left out
C8_Order(idref, coercion0, container, language, reverse) ==
    LET col == IF coercion0 = PyNone THEN language ELSE coercion0
        k1 == IF col # UNDEF /\ Truthy(container)
              THEN <<<<idref, col, container, reverse>>>> ELSE <<>>
        k2 == IF col # UNDEF THEN <<<<idref, col, UNDEF, reverse>>>> ELSE <<>>
        k3 == IF Truthy(container) THEN <<<<idref, col, container, reverse>>>> ELSE <<>>
        k4 == IF ~Truthy(container) /\ Truthy(language)
              THEN <<<<idref, UNDEF, LANG, reverse>>>> ELSE <<>>
        k5 == IF ~Truthy(container) /\ ~Truthy(language)
              THEN <<<<idref, IF Truthy(col) THEN col ELSE UNDEF, SET, reverse>>>>
              ELSE <<>>
    IN k1 \o k2 \o k3 \o k4 \o k5 \o <<<<idref, UNDEF, UNDEF, reverse>>>>

C8_Hits(lu, keys) == {k \in 1..Len(keys) : keys[k] \in DOMAIN lu}

C8_Idrefs == {IriN, IriM}
C8_Coercions == {PyNone, UNDEF, ID}
C8_Containers == {UNDEF, SET, LIST}
C8_Languages == {PyNone, <<"e", "n">>}

C10_IndexesConsistent ==
    \A i \in 1..Len(ctxs) :
        LET c == ctxs[i] IN
        /\ \A k \in DOMAIN c.lookup :
              c.lookup[k].name \in DOMAIN c.terms /\ c.terms[c.lookup[k].name] = c.lookup[k]
        /\ \A ns \in DOMAIN c.prefixes :
              c.prefixes[ns] \in DOMAIN c.terms /\ c.terms[c.prefixes[ns]].id = ns
        /\ \A kw \in DOMAIN c.alias : \A a \in Range(alists[c.alias[kw]]) :
              a \in DOMAIN c.terms /\ c.terms[a].id = kw
        /\ \A iri \in {IriN, IriM} :
              find_term(c, iri, PyNone, UNDEF, PyNone, FALSE).found =>
                  expand(c, to_symbol(c, iri), TRUE) = iri

(***************************************************************************)
(* One call of _rec_expand, frame by frame.                                *)
(***************************************************************************)
RecBodies == {"root", "tz", "tp", "np", "ab", "abxy", "chain"}

\* the expressions _read_term expands for a body: its string values and
\* the @id of its dict values
Exprs(source) ==
    {source[i].str : i \in {j \in 1..Len(source) : source[j].kind = "str"}}
    \cup {source[i].dfn.id : i \in {j \in 1..Len(source) :
                                 source[j].kind = "dict" /\ source[j].dfn.id # UNDEF}}

\* the context the body is read into: no terms yet, the vocab given
RecCtx(vocab) == [Context(0) EXCEPT !.vocab = vocab]

Frame(body, vocab, expr) ==
    [status |-> "running", body |-> body, vocab |-> vocab, expr |-> expr,
     prev |-> PyNone, depth |-> 1, val |-> <<>>, err |-> ""]

InitRec ==
    /\ ctxs = <<>>
    /\ alists = <<>>
    /\ last = Call0
    /\ nops = 0
    /\ rx \in UNION {{Frame(b, v, e) : v \in {PyNone, Vex, <<"b", ":">>},
                                         e \in Exprs(Body(b))} :
                      b \in RecBodies}

RecFrame == _rec_expand_frame(RecCtx(rx.vocab), Body(rx.body), rx.expr, rx.prev)

\* return self._rec_expand(source, nxt, expr)
RecCall ==
    /\ rx.status = "running" /\ rx.depth <= RecursionLimit
    /\ RecFrame.kind = "call"
    /\ rx' = [rx EXCEPT !.expr = RecFrame.val, !.prev = rx.expr, !.depth = rx.depth + 1]
    /\ UNCHANGED <<ctxs, alists, last, nops>>

\* return expr, return self.vocab + nxt
RecReturn ==
    /\ rx.status = "running" /\ rx.depth <= RecursionLimit
    /\ RecFrame.kind = "return"
    /\ rx' = [rx EXCEPT !.status = "returned", !.val = RecFrame.val]
    /\ UNCHANGED <<ctxs, alists, last, nops>>

\* the call stack is exhausted
RecRaise ==
    /\ rx.status = "running" /\ rx.depth > RecursionLimit
    /\ rx' = [rx EXCEPT !.status = "raised", !.err = "RecursionError"]
    /\ UNCHANGED <<ctxs, alists, last, nops>>

NextRec == RecCall \/ RecReturn \/ RecRaise

SpecRec == InitRec /\ [][NextRec]_vars

\* C9: every call of _rec_expand returns: it reaches a value equal to the
\* previous one, or a node keyword, before the call stack is exhausted.
C9_RecExpandReturns == rx.status # "raised"

====
